---------------------------- MODULE Spec2Model ----------------------------
(***************************************************************************)
(* A model of the budgeting application in src/app.py: the transaction     *)
(* store and the rule table (PostgreSQL tables transactions and            *)
(* category_rules), the statement cleaner clean_bank_file, the ingestion   *)
(* save_to_neon, the rule engine run_auto_categorization and the manual    *)
(* edit handlers of the Streamlit tabs.                                    *)
(*                                                                         *)
(* Text is modelled as a sequence of one-character strings so that string  *)
(* operations of the program (lower-casing, concatenation, ILIKE matching, *)
(* formatting of dates and amounts) are computed and not postulated.       *)
(* Money is held in cents, a date as the integer YYYYMMDD.                 *)
(***************************************************************************)
EXTENDS Integers, Sequences, FiniteSets, TLC

(***************************************************************************)
(* Bounds of the model.                                                    *)
(***************************************************************************)
\* the longest rule list the Rules tab builds in the model
MaxRules == 2

(***************************************************************************)
(* Text helpers.                                                           *)
(***************************************************************************)
RECURSIVE Concat(_)
\* "".join(parts): the concatenation of a sequence of texts
Concat(parts) ==
    IF parts = <<>> THEN <<>> ELSE Head(parts) \o Concat(Tail(parts))

\* str.lower() on one character
LowerChar(c) ==
    CASE c = "A" -> "a"
      [] c = "B" -> "b"
      [] c = "C" -> "c"
      [] c = "D" -> "d"
      [] c = "E" -> "e"
      [] c = "F" -> "f"
      [] c = "G" -> "g"
      [] c = "H" -> "h"
      [] c = "I" -> "i"
      [] c = "J" -> "j"
      [] c = "K" -> "k"
      [] c = "L" -> "l"
      [] c = "M" -> "m"
      [] c = "N" -> "n"
      [] c = "O" -> "o"
      [] c = "P" -> "p"
      [] c = "Q" -> "q"
      [] c = "R" -> "r"
      [] c = "S" -> "s"
      [] c = "T" -> "t"
      [] c = "U" -> "u"
      [] c = "V" -> "v"
      [] c = "W" -> "w"
      [] c = "X" -> "x"
      [] c = "Y" -> "y"
      [] c = "Z" -> "z"
      [] OTHER -> c

\* str.lower() on a text
Lower(t) == [i \in 1..Len(t) |-> LowerChar(t[i])]

\* the decimal digit characters
DigitChars == <<"0", "1", "2", "3", "4", "5", "6", "7", "8", "9">>

IsDigit(c) == \E d \in 1..10 : DigitChars[d] = c

\* the value of a digit character
DigitVal(c) == (CHOOSE d \in 1..10 : DigitChars[d] = c) - 1

RECURSIVE NatStr(_)
\* str(n) for a natural number n
NatStr(n) ==
    IF n < 10 THEN <<DigitChars[n + 1]>>
    ELSE NatStr(n \div 10) \o <<DigitChars[(n % 10) + 1]>>

\* n written with exactly w digits, zero padded (the %Y, %m, %d of strftime)
Pad(n, w) ==
    LET s == NatStr(n)
    IN  [i \in 1..(w - Len(s)) |-> "0"] \o s

RECURSIVE DigitsVal(_)
\* int(s) for a non-empty text of digits
DigitsVal(s) ==
    IF Len(s) = 1 THEN DigitVal(s[1])
    ELSE 10 * DigitsVal(SubSeq(s, 1, Len(s) - 1)) + DigitVal(s[Len(s)])

AllDigits(s) == Len(s) > 0 /\ \A i \in 1..Len(s) : IsDigit(s[i])

\* str.replace(ch, ''): a text with every occurrence of one character removed
RECURSIVE RemoveChar(_, _)
RemoveChar(t, ch) ==
    IF t = <<>> THEN <<>>
    ELSE IF Head(t) = ch THEN RemoveChar(Tail(t), ch)
    ELSE <<Head(t)>> \o RemoveChar(Tail(t), ch)

(***************************************************************************)
(* SQL NULL / Python None / pandas NaN, where the program can hold them.   *)
(***************************************************************************)
\* Python None, stored as SQL NULL: a one-element sequence no text equals
PyNone == <<"<None>">>

\* pandas NaN / NaT, the value of an empty cell
NaN == <<"<NaN>">>

(***************************************************************************)
(* PostgreSQL's ILIKE, the match the rule engine's UPDATE uses             *)
(* (WHERE name ILIKE :kw): % matches any run of characters, _ any single   *)
(* character, a backslash makes the next pattern character literal, and    *)
(* letters compare without case. A NULL name matches nothing.              *)
(***************************************************************************)
RECURSIVE LikeMatch(_, _)
LikeMatch(t, p) ==
    IF p = <<>> THEN t = <<>>
    ELSE IF Head(p) = "\\" /\ Len(p) >= 2
         THEN /\ t # <<>>
              /\ LowerChar(Head(t)) = LowerChar(p[2])
              /\ LikeMatch(Tail(t), SubSeq(p, 3, Len(p)))
    ELSE IF Head(p) = "%"
         THEN \/ LikeMatch(t, Tail(p))
              \/ (t # <<>> /\ LikeMatch(Tail(t), p))
    ELSE IF Head(p) = "_"
         THEN t # <<>> /\ LikeMatch(Tail(t), Tail(p))
    ELSE /\ t # <<>>
         /\ LowerChar(Head(t)) = LowerChar(Head(p))
         /\ LikeMatch(Tail(t), Tail(p))

\* name ILIKE pattern
ILike(name, pattern) == name # PyNone /\ LikeMatch(name, pattern)

\* keyword = f"%{rule['keyword']}%"
KeywordPattern(keyword) == <<"%">> \o keyword \o <<"%">>

(***************************************************************************)
(* Formatting of the three fields the transaction id is built from.        *)
(***************************************************************************)
\* strftime('%Y-%m-%d') of the date YYYYMMDD
DateStr(d) ==
    Pad(d \div 10000, 4) \o <<"-">> \o Pad((d \div 100) % 100, 2)
        \o <<"-">> \o Pad(d % 100, 2)

\* whether a text is a calendar date written YYYY-MM-DD
IsIsoDate(t) ==
    /\ Len(t) = 10
    /\ t[5] = "-" /\ t[8] = "-"
    /\ \A i \in {1, 2, 3, 4, 6, 7, 9, 10} : IsDigit(t[i])
    /\ DigitsVal(SubSeq(t, 6, 7)) \in 1..12
    /\ DigitsVal(SubSeq(t, 9, 10)) \in 1..31

\* the date YYYYMMDD a text YYYY-MM-DD denotes (the DATE column's input)
IsoToDate(t) ==
    DigitsVal(SubSeq(t, 1, 4)) * 10000 + DigitsVal(SubSeq(t, 6, 7)) * 100
        + DigitsVal(SubSeq(t, 9, 10))

\* An amount of a cleaned frame: k is the column's dtype ("int" for int64,
\* "float" for float64) or "nan" for a missing value; c is the value in cents.
IntAmount(c) == [k |-> "int", c |-> c]
FloatAmount(c) == [k |-> "float", c |-> c]
NanAmount == [k |-> "nan", c |-> 0]

Abs(n) == IF n < 0 THEN -n ELSE n

\* Python's str() of the amount, as the f-string of the id formats it:
\* an int64 prints its digits, a float64 its shortest repr (4.5, 12.25, 3.0)
AmountStr(a) ==
    LET sign == IF a.c < 0 THEN <<"-">> ELSE <<>>
        whole == NatStr(Abs(a.c) \div 100)
        cents == Abs(a.c) % 100
        frac == IF cents % 10 = 0 THEN NatStr(cents \div 10) ELSE Pad(cents, 2)
    IN  CASE a.k = "nan" -> <<"n", "a", "n">>
          [] a.k = "int" -> sign \o whole
          [] OTHER -> sign \o whole \o <<".">> \o frac

\* Python's str() of a date or name cell inside the f-string
CellStr(v) ==
    CASE v = PyNone -> <<"N", "o", "n", "e">>
      [] v = NaN -> <<"n", "a", "n">>
      [] OTHER -> v

\* hashlib.md5(f"{date}{name}{amount}".encode()).hexdigest(): the digest is
\* taken to be injective and is represented by the text it is computed from
TransactionId(date, name, amount) ==
    Concat(<<CellStr(date), CellStr(name), AmountStr(amount)>>)

(***************************************************************************)
(* The transactions table. A record keeps the columns the program reads    *)
(* back: transaction_id (id), date, name, amount, category, bucket and     *)
(* source. merchant_name repeats name and pending is always false.         *)
(***************************************************************************)
\* the numeric value the NUMERIC column keeps of an amount: 5 and 5.0 are equal
DbAmount(a) == IF a.k = "nan" THEN NanAmount ELSE [k |-> "num", c |-> a.c]

\* the text the TEXT column keeps of a name: a NaN parameter is stored as 'NaN'
DbName(n) == IF n = NaN THEN <<"N", "a", "N">> ELSE n

\* the row the INSERT of save_to_neon writes for one row of the frame
RecordOf(row) ==
    [id |-> row.transaction_id, date |-> IsoToDate(row.date),
     name |-> DbName(row.name), amount |-> DbAmount(row.amount),
     category |-> row.category, bucket |-> row.bucket, source |-> row.source]

Ids(s) == {r.id : r \in s}

\* INSERT ... ON CONFLICT (transaction_id) DO UPDATE: overwrites the record
InsertRowUpsert(s, row) ==
    {r \in s : r.id # row.transaction_id} \cup {RecordOf(row)}

\* INSERT ... ON CONFLICT (transaction_id) DO NOTHING
InsertRow(s, row) ==
    IF row.transaction_id \in Ids(s) THEN s ELSE s \cup {RecordOf(row)}

RECURSIVE SaveRows(_, _)
\* the store after the loop of save_to_neon over the rows of a frame
SaveRows(s, df) ==
    IF df = <<>> THEN s ELSE SaveRows(InsertRow(s, Head(df)), Tail(df))

\* the value save_to_neon returns: count is incremented after every execute
\* that does not raise, and no INSERT of a cleaned row raises
SaveCount(s, df) == Len(df)

(***************************************************************************)
(* The rule engine.                                                        *)
(***************************************************************************)
\* whether the UPDATE of one rule selects a record
RuleSelects(rule, r) ==
    /\ ILike(r.name, KeywordPattern(rule.keyword))
    /\ r.category = "Uncategorized"

\* one UPDATE that reaches a single row only
ApplyRuleOneRow(s, rule) ==
    LET hit == {r \in s : RuleSelects(rule, r)}
    IN  IF hit = {} THEN s
        ELSE LET r == CHOOSE x \in hit : \A y \in hit : x.date <= y.date
             IN  (s \ {r}) \cup {[r EXCEPT !.category = rule.category,
                                          !.bucket = rule.bucket]}

\* one UPDATE without the category = 'Uncategorized' condition
ApplyRuleAnyCategory(s, rule) ==
    {IF ILike(r.name, KeywordPattern(rule.keyword))
        THEN [r EXCEPT !.category = rule.category, !.bucket = rule.bucket]
        ELSE r : r \in s}

\* UPDATE transactions SET category = :cat, bucket = :bucket
\* WHERE name ILIKE :kw AND category = 'Uncategorized'
ApplyRule(s, rule) ==
    {IF RuleSelects(rule, r)
        THEN [r EXCEPT !.category = rule.category, !.bucket = rule.bucket]
        ELSE r : r \in s}

RECURSIVE ApplyRulesLastFirst(_, _)
\* the loop run from the newest rule to the oldest
ApplyRulesLastFirst(s, rs) ==
    IF rs = <<>> THEN s
    ELSE ApplyRulesLastFirst(ApplyRule(s, rs[Len(rs)]), SubSeq(rs, 1, Len(rs) - 1))

RECURSIVE ApplyRules(_, _)
\* the loop over rules.iterrows(): one committed UPDATE per rule, in order
ApplyRules(s, rs) ==
    IF rs = <<>> THEN s ELSE ApplyRules(ApplyRule(s, Head(rs)), Tail(rs))

\* run_auto_categorization() on a store, with the rule table rs
RunAutoCategorization(s, rs) == IF rs = <<>> THEN s ELSE ApplyRules(s, rs)

(***************************************************************************)
(* clean_bank_file: the CSV branch.                                        *)
(*                                                                         *)
(* An uploaded file is [name, header, rows, lines, thisYear]: name is the   *)
(* file name; for a CSV file header is the set of raw column headers and   *)
(* each row a function from the raw headers to the cell's text (the empty  *)
(* text for an empty cell); lines and thisYear are read for a PDF only.    *)
(***************************************************************************)
\* the byte order mark, as one character
Bom == "<BOM>"

RECURSIVE StripLeft(_)
StripLeft(t) ==
    IF t # <<>> /\ Head(t) = " " THEN StripLeft(Tail(t)) ELSE t

RECURSIVE StripRight(_)
StripRight(t) ==
    IF t # <<>> /\ t[Len(t)] = " " THEN StripRight(SubSeq(t, 1, Len(t) - 1))
    ELSE t

\* str.strip()
Strip(t) == StripRight(StripLeft(t))

\* df.columns.str.strip().str.lower().str.replace(BOM, '')
NormalizeHeader(h) == RemoveChar(Lower(Strip(h)), Bom)

\* the column names the program looks for
colDate == <<"d", "a", "t", "e">>
colName == <<"n", "a", "m", "e">>
colAmount == <<"a", "m", "o", "u", "n", "t">>
colDebit == <<"d", "e", "b", "i", "t">>
colCredit == <<"c", "r", "e", "d", "i", "t">>
colPostDate == <<"p", "o", "s", "t", " ", "d", "a", "t", "e">>
colTransactionDate == <<"t", "r", "a", "n", "s", "a", "c", "t", "i", "o", "n", " ", "d", "a", "t", "e">>
colPaymentDate == <<"p", "a", "y", "m", "e", "n", "t", " ", "d", "a", "t", "e">>
colDescription == <<"d", "e", "s", "c", "r", "i", "p", "t", "i", "o", "n">>

\* the file name suffixes the program accepts
extCsv == <<".", "c", "s", "v">>
extPdf == <<".", "p", "d", "f">>

Banks == {"Chase", "Citi", "Sofi", "Chime"}

\* df.rename(columns={from: to}) on the set of column names
Rename(cols, from, to) ==
    IF from \in cols THEN (cols \ {from}) \cup {to} ELSE cols

\* the raw column a canonical column was renamed from, per bank (lines 133-152)
DateSource(cols, bank) ==
    CASE bank = "Chase" ->
            IF colPostDate \in cols THEN colPostDate
            ELSE IF colTransactionDate \in cols THEN colTransactionDate
            ELSE colDate
      [] bank = "Sofi" ->
            IF colPaymentDate \in cols THEN colPaymentDate ELSE colDate
      [] bank = "Chime" ->
            IF colTransactionDate \in cols THEN colTransactionDate ELSE colDate
      [] OTHER -> colDate

NameSource(cols, bank) ==
    IF colDescription \in cols THEN colDescription ELSE colName

\* the column names after the renames of the bank's branch
RenamedColumns(cols, bank) ==
    Rename(Rename(cols, DateSource(cols, bank), colDate),
           NameSource(cols, bank), colName)

\* the columns of the frame read_csv returns, with normalized names
Columns(file) == {NormalizeHeader(h) : h \in file.header}

\* the texts of one column, top to bottom
ColumnCells(file, col) ==
    LET h == CHOOSE x \in file.header : NormalizeHeader(x) = col
    IN  [i \in 1..Len(file.rows) |-> file.rows[i][h]]

\* a text without its leading minus sign
Unsigned(t) == IF t # <<>> /\ Head(t) = "-" THEN Tail(t) ELSE t

\* an integer literal: -?[0-9]+
IsIntLit(t) == AllDigits(Unsigned(t))

\* a decimal literal with one or two decimals: -?[0-9]+.[0-9]{1,2}
IsDecLit(t) ==
    LET u == Unsigned(t)
    IN  \E i \in 2..(Len(u) - 1) :
            /\ u[i] = "."
            /\ AllDigits(SubSeq(u, 1, i - 1))
            /\ AllDigits(SubSeq(u, i + 1, Len(u)))
            /\ Len(u) - i <= 2

IsNumLit(t) == IsIntLit(t) \/ IsDecLit(t)

\* the value in cents of a numeric literal
LitCents(t) ==
    LET u == Unsigned(t)
        sign == IF u = t THEN 1 ELSE -1
    IN  IF IsIntLit(t) THEN sign * 100 * DigitsVal(u)
        ELSE LET i == CHOOSE j \in 2..(Len(u) - 1) : u[j] = "."
                 frac == SubSeq(u, i + 1, Len(u))
             IN  sign * (100 * DigitsVal(SubSeq(u, 1, i - 1))
                         + (IF Len(frac) = 1 THEN 10 ELSE 1) * DigitsVal(frac))

\* the dtype read_csv infers for a column and the values it holds: int64 when
\* every cell is an integer literal, float64 when every non-empty cell is a
\* number (an empty cell is NaN), object (the texts themselves) otherwise
InferColumn(cells) ==
    LET n == Len(cells)
        full == {i \in 1..n : cells[i] # <<>>}
    IN  IF full = 1..n /\ (\A i \in full : IsIntLit(cells[i]))
        THEN [dtype |-> "int64",
              vals |-> [i \in 1..n |-> IntAmount(LitCents(cells[i]))]]
        ELSE IF \A i \in full : IsNumLit(cells[i])
        THEN [dtype |-> "float64",
              vals |-> [i \in 1..n |->
                          IF i \in full THEN FloatAmount(LitCents(cells[i]))
                          ELSE NanAmount]]
        ELSE [dtype |-> "object",
              vals |-> [i \in 1..n |-> IF i \in full THEN cells[i] ELSE NaN]]

\* a column added by df[col] = 0 (int64) or df[col] = 0.0 (float64)
ConstantColumn(n, dtype) ==
    [dtype |-> dtype,
     vals |-> [i \in 1..n |->
                 IF dtype = "int64" THEN IntAmount(0) ELSE FloatAmount(0)]]

\* series.fillna(0) on one value
FillZero(a) == IF a.k = "nan" THEN [a EXCEPT !.k = "float"] ELSE a

\* df['credit'].fillna(0) - df['debit'].fillna(0); it raises on texts
CreditMinusDebit(credit, debit) ==
    IF credit.dtype = "object" \/ debit.dtype = "object"
    THEN [ok |-> FALSE, dtype |-> "object", vals |-> <<>>]
    ELSE LET dtype == IF credit.dtype = "int64" /\ debit.dtype = "int64"
                      THEN "int64" ELSE "float64"
         IN  [ok |-> TRUE, dtype |-> dtype,
              vals |-> [i \in 1..Len(credit.vals) |->
                          [k |-> IF dtype = "int64" THEN "int" ELSE "float",
                           c |-> FillZero(credit.vals[i]).c
                                   - FillZero(debit.vals[i]).c]]]

\* astype(str).str.replace('$', '').str.replace(',', '') on one object cell
CurrencyText(v) ==
    RemoveChar(RemoveChar(IF v = NaN THEN <<"n", "a", "n">> ELSE v, "$"), ",")

\* lines 167-169: an object column is cleaned and given to pd.to_numeric,
\* which raises on a text that is no number; a numeric column is kept
NumericAmount(col) ==
    IF col.dtype # "object" THEN [ok |-> TRUE, vals |-> col.vals]
    ELSE LET txt == [i \in 1..Len(col.vals) |-> CurrencyText(col.vals[i])]
             isNan(t) == t = <<"n", "a", "n">>
             ints == \A i \in 1..Len(txt) : IsIntLit(txt[i])
         IN  IF \E i \in 1..Len(txt) : ~IsNumLit(txt[i]) /\ ~isNan(txt[i])
             THEN [ok |-> FALSE, vals |-> <<>>]
             ELSE [ok |-> TRUE,
                   vals |-> [i \in 1..Len(txt) |->
                               IF isNan(txt[i]) THEN NanAmount
                               ELSE IF ints THEN IntAmount(LitCents(txt[i]))
                               ELSE FloatAmount(LitCents(txt[i]))]]

(***************************************************************************)
(* pd.to_datetime on the date texts the model's files hold: YYYY-MM-DD,    *)
(* M/D/YYYY or M/D/YY, and "Mon D, YYYY". Any other text makes it raise.   *)
(***************************************************************************)
MonthNames == <<<<"J", "a", "n">>, <<"F", "e", "b">>, <<"M", "a", "r">>,
               <<"A", "p", "r">>, <<"M", "a", "y">>, <<"J", "u", "n">>,
               <<"J", "u", "l">>, <<"A", "u", "g">>, <<"S", "e", "p">>,
               <<"O", "c", "t">>, <<"N", "o", "v">>, <<"D", "e", "c">>>>

\* the positions of a character in a text
Positions(t, ch) == {i \in 1..Len(t) : t[i] = ch}

Min(S) == CHOOSE x \in S : \A y \in S : x <= y

\* \d{1,2}/\d{1,2}/\d{2,4}
IsSlashDate(t) ==
    /\ Cardinality(Positions(t, "/")) = 2
    /\ LET i == Min(Positions(t, "/"))
           j == Min(Positions(t, "/") \ {i})
       IN  /\ i - 1 \in 1..2 /\ AllDigits(SubSeq(t, 1, i - 1))
           /\ j - i - 1 \in 1..2 /\ AllDigits(SubSeq(t, i + 1, j - 1))
           /\ Len(t) - j \in 2..4 /\ AllDigits(SubSeq(t, j + 1, Len(t)))

\* the fields of a text that IsSlashDate accepts, read month first
SlashFields(t) ==
    LET i == Min(Positions(t, "/"))
        j == Min(Positions(t, "/") \ {i})
        y == SubSeq(t, j + 1, Len(t))
    IN  [m |-> DigitsVal(SubSeq(t, 1, i - 1)),
         d |-> DigitsVal(SubSeq(t, i + 1, j - 1)),
         ylen |-> Len(y),
         y |-> IF Len(y) = 2
               THEN (IF DigitsVal(y) <= 68 THEN 2000 ELSE 1900) + DigitsVal(y)
               ELSE DigitsVal(y)]

\* "Mon D, YYYY" with a month abbreviation
IsMonthDate(t) ==
    /\ Len(t) >= 11
    /\ \E m \in 1..12 : SubSeq(t, 1, 3) = MonthNames[m]
    /\ t[4] = " "
    /\ \E k \in 1..2 :
          /\ Len(t) = 4 + k + 6
          /\ AllDigits(SubSeq(t, 5, 4 + k))
          /\ t[5 + k] = "," /\ t[6 + k] = " "
          /\ AllDigits(SubSeq(t, 7 + k, Len(t)))

MonthFields(t) ==
    LET k == Len(t) - 10
    IN  [m |-> CHOOSE m \in 1..12 : SubSeq(t, 1, 3) = MonthNames[m],
         d |-> DigitsVal(SubSeq(t, 5, 4 + k)),
         ylen |-> 4,
         y |-> DigitsVal(SubSeq(t, 7 + k, Len(t)))]

\* the date a text denotes: [ok, d], ok false where pd.to_datetime raises
ParseDate(t) ==
    LET f == IF IsSlashDate(t) THEN SlashFields(t)
             ELSE IF IsMonthDate(t) THEN MonthFields(t)
             ELSE [m |-> 0, d |-> 0, ylen |-> 0, y |-> 0]
    IN  IF IsIsoDate(t) THEN [ok |-> TRUE, d |-> IsoToDate(t)]
        ELSE IF f.m \in 1..12 /\ f.d \in 1..31 /\ f.ylen \in {2, 4}
        THEN [ok |-> TRUE, d |-> f.y * 10000 + f.m * 100 + f.d]
        ELSE [ok |-> FALSE, d |-> 0]

(***************************************************************************)
(* process_chime_pdf. An uploaded PDF is given by the lines of text of its *)
(* pages, in order (pages are read one after the other with no state kept  *)
(* between them), the file name and the current year.                      *)
(***************************************************************************)
IsUpper(c) == LowerChar(c) # c

IsLowerLetter(c) == \E u \in {"A", "B", "C", "D", "E", "F", "G", "H", "I",
                             "J", "K", "L", "M", "N", "O", "P", "Q", "R",
                             "S", "T", "U", "V", "W", "X", "Y", "Z"} :
                        LowerChar(u) = c

\* re.search(r'20\d{2}', filename), else str(datetime.now().year)
DefaultYear(file) ==
    LET n == file.name
        hits == {i \in 1..(Len(n) - 3) :
                    /\ n[i] = "2" /\ n[i + 1] = "0"
                    /\ IsDigit(n[i + 2]) /\ IsDigit(n[i + 3])}
    IN  IF hits = {} THEN file.thisYear
        ELSE SubSeq(n, Min(hits), Min(hits) + 3)

RECURSIVE Split(_)
\* str.split(): the maximal runs of characters that are not blank
Split(t) ==
    LET u == StripLeft(t)
    IN  IF u = <<>> THEN <<>>
        ELSE LET sp == Positions(u, " ")
                 e == IF sp = {} THEN Len(u) + 1 ELSE Min(sp)
             IN  <<SubSeq(u, 1, e - 1)>> \o Split(SubSeq(u, e, Len(u)))

RECURSIVE Join(_)
\* " ".join(parts)
Join(parts) ==
    IF parts = <<>> THEN <<>>
    ELSE IF Len(parts) = 1 THEN parts[1]
    ELSE parts[1] \o <<" ">> \o Join(Tail(parts))

\* the length of the date token the line pattern
\* ^(\d{1,2}/\d{1,2}/\d{2,4}|[A-Z][a-z]{2}\s\d{1,2})\s+(.*) matches at the
\* start of a line, 0 when the line does not match
DateTokenLen(line) ==
    LET sp == Positions(line, " ")
        first == IF sp = {} THEN 0 ELSE Min(sp)
        later == {i \in sp : i > 4}
        second == IF later = {} THEN 0 ELSE Min(later)
    IN  IF first > 1 /\ IsSlashDate(SubSeq(line, 1, first - 1))
        THEN first - 1
        ELSE IF /\ first = 4 /\ second \in 6..7
                /\ IsUpper(line[1])
                /\ IsLowerLetter(line[2]) /\ IsLowerLetter(line[3])
                /\ AllDigits(SubSeq(line, 5, second - 1))
        THEN second - 1
        ELSE 0

\* tokens[i].replace('$', '').replace(',', '').replace('(', '-').replace(')', '')
CleanToken(t) ==
    LET u == RemoveChar(RemoveChar(RemoveChar(t, "$"), ","), ")")
    IN  [i \in 1..Len(u) |-> IF u[i] = "(" THEN "-" ELSE u[i]]

\* re.match(r'^-?\d+\.\d{2}$', clean_token)
IsMoney(t) ==
    LET u == Unsigned(t)
    IN  /\ Len(u) >= 4
        /\ u[Len(u) - 2] = "."
        /\ AllDigits(SubSeq(u, 1, Len(u) - 3))
        /\ AllDigits(SubSeq(u, Len(u) - 1, Len(u)))

\* a scan from the first token on: the index of the first token that matches
AmountIndexFirst(tokens) ==
    LET hits == {i \in 1..Len(tokens) : IsMoney(CleanToken(tokens[i]))}
    IN  IF hits = {} THEN 0 ELSE CHOOSE i \in hits : \A j \in hits : i <= j

\* the index of the token the backwards scan stops at, 0 when none matches
AmountIndex(tokens) ==
    LET hits == {i \in 1..Len(tokens) : IsMoney(CleanToken(tokens[i]))}
    IN  IF hits = {} THEN 0 ELSE CHOOSE i \in hits : \A j \in hits : j <= i

\* the records one line adds to transactions: none or one
LineRecords(line, year) ==
    LET n == DateTokenLen(line)
        datePart == SubSeq(line, 1, n)
        tokens == Split(SubSeq(line, n + 1, Len(line)))
        i == AmountIndex(tokens)
    IN  IF n = 0 \/ i = 0 THEN <<>>
        ELSE <<[date |-> IF Positions(datePart, "/") = {}
                         THEN datePart \o <<",", " ">> \o year
                         ELSE datePart,
                name |-> Join(SubSeq(tokens, 1, i - 1)),
                amount |-> FloatAmount(LitCents(CleanToken(tokens[i]))),
                source |-> "Chime PDF"]>>

RECURSIVE LinesRecords(_, _)
LinesRecords(lines, year) ==
    IF lines = <<>> THEN <<>>
    ELSE LineRecords(Head(lines), year) \o LinesRecords(Tail(lines), year)

\* process_chime_pdf(uploaded_file): the rows of the frame it returns
ProcessChimePdf(file) == LinesRecords(file.lines, DefaultYear(file))

(***************************************************************************)
(* clean_bank_file. The result is [ok, rows]: ok is false where the        *)
(* function ends in st.stop() (an unsupported file, or an exception        *)
(* reported by st.error), and rows is the frame it returns otherwise.      *)
(***************************************************************************)
\* str.endswith(suffix)
EndsWith(t, suffix) ==
    /\ Len(t) >= Len(suffix)
    /\ SubSeq(t, Len(t) - Len(suffix) + 1, Len(t)) = suffix

Stopped == [ok |-> FALSE, rows |-> <<>>]

\* The frame before the cleanup, lines 128-158, as the columns the cleanup
\* reads: has* tell whether the column exists, n is the number of rows.
CsvFrame(file, bank) ==
    LET raw == Columns(file)
        cols == RenamedColumns(raw, bank)
        n == Len(file.rows)
        numeric(col, dtype) ==
            IF col \in raw THEN InferColumn(ColumnCells(file, col))
            ELSE ConstantColumn(n, dtype)
        derived == CreditMinusDebit(numeric(colCredit, "int64"),
                                    numeric(colDebit, "int64"))
        derive == bank = "Citi" /\ colAmount \notin raw
        cell(c) == IF c = <<>> THEN NaN ELSE c
    IN  [ok |-> ~derive \/ derived.ok,
         n |-> n,
         hasDate |-> colDate \in cols,
         dates |-> IF colDate \in cols
                   THEN [i \in 1..n |->
                           cell(ColumnCells(file, DateSource(raw, bank))[i])]
                   ELSE <<>>,
         hasName |-> colName \in cols,
         names |-> IF colName \in cols
                   THEN [i \in 1..n |->
                           cell(ColumnCells(file, NameSource(raw, bank))[i])]
                   ELSE <<>>,
         hasAmount |-> derive \/ colAmount \in raw,
         amounts |-> IF derive THEN [dtype |-> derived.dtype, vals |-> derived.vals]
                     ELSE numeric(colAmount, "float64"),
         sources |-> [i \in 1..n |-> bank]]

\* the frame process_chime_pdf returns, in the same form
PdfFrame(file) ==
    LET recs == ProcessChimePdf(file)
        n == Len(recs)
    IN  [ok |-> TRUE,
         n |-> n,
         hasDate |-> TRUE,
         dates |-> [i \in 1..n |-> recs[i].date],
         hasName |-> TRUE,
         names |-> [i \in 1..n |-> recs[i].name],
         hasAmount |-> TRUE,
         amounts |-> [dtype |-> "float64",
                      vals |-> [i \in 1..n |-> recs[i].amount]],
         sources |-> [i \in 1..n |-> recs[i].source]]

\* lines 163-185: the cleanup and the rows returned
Cleanup(fr) ==
    LET amountCol == IF fr.hasAmount THEN fr.amounts
                     ELSE ConstantColumn(fr.n, "float64")
        num == NumericAmount(amountCol)
        parsed == [i \in 1..fr.n |->
                     IF fr.dates[i] = NaN THEN [ok |-> TRUE, d |-> 0]
                     ELSE ParseDate(fr.dates[i])]
        date(i) == IF fr.dates[i] = NaN THEN NaN ELSE DateStr(parsed[i].d)
        name(i) == IF fr.hasName THEN fr.names[i] ELSE PyNone
        rows == [i \in 1..fr.n |->
                   [transaction_id |-> TransactionId(date(i), name(i), num.vals[i]),
                    date |-> date(i),
                    name |-> name(i),
                    amount |-> num.vals[i],
                    category |-> "Uncategorized",
                    bucket |-> "SPEND",
                    source |-> fr.sources[i]]]
        keep(row) == row.date # NaN
    IN  IF ~fr.ok \/ ~num.ok \/ ~fr.hasDate THEN Stopped
        ELSE IF \E i \in 1..fr.n : ~parsed[i].ok THEN Stopped
        ELSE [ok |-> TRUE, rows |-> SelectSeq(rows, keep)]

\* clean_bank_file stopping on a CSV file without a date, a name or an amount
\* column
CleanBankFileStrict(file, bank) ==
    IF /\ EndsWith(Lower(file.name), extCsv)
       /\ {colDate, colName, colAmount} \subseteq RenamedColumns(Columns(file), bank)
    THEN Cleanup(CsvFrame(file, bank))
    ELSE Stopped

\* clean_bank_file(uploaded_file, bank_choice)
CleanBankFile(file, bank) ==
    LET filename == Lower(file.name)
    IN  IF EndsWith(filename, extCsv) THEN Cleanup(CsvFrame(file, bank))
        ELSE IF EndsWith(filename, extPdf) /\ bank = "Chime"
        THEN Cleanup(PdfFrame(file))
        ELSE Stopped

(***************************************************************************)
(* The inputs of the model: header texts, cell texts, files, rules and the *)
(* choices of the edit forms.                                              *)
(***************************************************************************)
hPostDate == <<" ", "P", "o", "s", "t", " ", "D", "a", "t", "e">>
hDate == <<"D", "a", "t", "e">>
hDescription == <<"D", "e", "s", "c", "r", "i", "p", "t", "i", "o", "n", " ">>
hAmount == <<"A", "M", "O", "U", "N", "T">>
hDebit == <<"D", "e", "b", "i", "t">>
hCredit == <<"C", "r", "e", "d", "i", "t">>

tSep30 == <<"2", "0", "2", "5", "-", "0", "9", "-", "3", "0">>
tOct02 == <<"2", "0", "2", "5", "-", "1", "0", "-", "0", "2">>
tAb == <<"A", "b">>
tB == <<"b">>
tCab == <<"c", "a", "b">>
aNeg450 == <<"-", "4", ".", "5", "0">>
a1250 == <<"1", "2", ".", "5", "0">>
a300 == <<"3", ".", "0", "0">>

NoLines == <<>>
NoYear == <<>>

\* a Chase export: Post Date, Description, Amount
FileChase ==
    [name |-> <<"c", "h", "a", "s", "e", ".", "C", "S", "V">>,
     header |-> {hPostDate, hDescription, hAmount},
     rows |-> <<(hPostDate :> tSep30 @@ hDescription :> tAb @@ hAmount :> aNeg450),
                (hPostDate :> tOct02 @@ hDescription :> tB @@ hAmount :> a1250)>>,
     lines |-> NoLines, thisYear |-> NoYear]

\* a Citi export: Date, Description, Debit, Credit; its first row is the
\* second transaction of FileChase
FileCiti ==
    [name |-> <<"c", "i", "t", "i", ".", "c", "s", "v">>,
     header |-> {hDate, hDescription, hDebit, hCredit},
     rows |-> <<(hDate :> tOct02 @@ hDescription :> tB
                     @@ hDebit :> <<>> @@ hCredit :> a1250),
                (hDate :> tOct02 @@ hDescription :> tCab
                     @@ hDebit :> a300 @@ hCredit :> <<>>)>>,
     lines |-> NoLines, thisYear |-> NoYear]

\* a longer Chase export of the same account, newest transaction first
FileChaseNewestFirst ==
    [FileChase EXCEPT !.name = <<"c", "h", "a", "s", "e", "2", ".", "c", "s", "v">>,
                      !.rows = <<FileChase.rows[2], FileChase.rows[1],
                                 (hPostDate :> tSep30 @@ hDescription :> tCab
                                    @@ hAmount :> a300)>>]

\* the uploads of the Upload tab, by name: a file and the bank chosen for it
Uploads == {"chase.CSV as Chase", "citi.csv as Citi", "chase.CSV as Citi"}

\* the uploads that sessions make at the same time
ConcurrentUploads == {"chase.CSV as Chase", "citi.csv as Citi", "chase2.csv as Chase"}

UploadOf(u) ==
    CASE u = "chase.CSV as Chase" -> [file |-> FileChase, bank |-> "Chase"]
      [] u = "citi.csv as Citi" -> [file |-> FileCiti, bank |-> "Citi"]
      [] u = "chase.CSV as Citi" -> [file |-> FileChase, bank |-> "Citi"]
      [] u = "chase2.csv as Chase" -> [file |-> FileChaseNewestFirst, bank |-> "Chase"]

\* what clean_bank_file returns for each upload
Cleaned ==
    [u \in Uploads \cup ConcurrentUploads |->
        CleanBankFile(UploadOf(u).file, UploadOf(u).bank)]

\* CAT_OPTIONS of the Rules tab, line 401
CatOptions ==
    {"Groceries", "Dining Out", "Rent", "Utilities", "Shopping", "Transport",
     "Income", "Subscriptions", "Credit Card Pay", "Home Improvement", "Pets",
     "RX", "Savings", "Gambling", "Personal Loan"}

\* the options of every bucket select box
Buckets == {"SPEND", "BILL", "INCOME", "TRANSFER"}

\* the rules the add_rule form is given in the model
RuleChoices ==
    {[keyword |-> <<"a">>, category |-> "Groceries", bucket |-> "SPEND"],
     [keyword |-> <<"B">>, category |-> "Rent", bucket |-> "BILL"],
     [keyword |-> <<"_", "b">>, category |-> "Rent", bucket |-> "TRANSFER"]}

\* the values the edit forms are given in the model
EditCategories == {"Pets"}
EditBuckets == {"TRANSFER"}

\* the weeks the dashboard views: start_of_week (a Monday) and end_of_week
Weeks == {[s |-> 20250929, e |-> 20251005], [s |-> 20251006, e |-> 20251012]}

\* the default of the "Before:" date input of Delete Old Data, line 461
OldDataCutoff == 20251001

(***************************************************************************)
(* The state.                                                              *)
(*   store   the rows of table transactions                                *)
(*   rules   the rows of table category_rules, in insertion order          *)
(*   edited  the ids of the records a manual edit has been saved for       *)
(*   hist    the handler that ran last: its name, whether the handler      *)
(*           before it ran the rules too, the upload it was given, the     *)
(*           count it reported and the number of records it wrote          *)
(*   sess    for each session inside save_to_neon: the upload, the index   *)
(*           of the next row, count, the rows inserted and not yet         *)
(*           committed, and whether its transaction has failed             *)
(*   cls     the run of run_auto_categorization under way: the rules it    *)
(*           read, the index of the next rule, and whether it began after  *)
(*           the upload had been committed                                 *)
(*   clean   the call of clean_bank_file or process_chime_pdf under way:   *)
(*           the file and the bank it was given and what it returned       *)
(***************************************************************************)
VARIABLES store, rules, edited, hist, sess, cls, clean

vars == <<store, rules, edited, hist, sess, cls, clean>>

NoUpload == "none"

\* the browser sessions that upload at the same time
Sessions == {1, 2}

\* a session outside save_to_neon
IdleSession ==
    [pc |-> "idle", upload |-> NoUpload, i |-> 0, count |-> 0, pending |-> {},
     failed |-> FALSE]

\* no run of run_auto_categorization under way
IdleRun == [pc |-> "idle", rs |-> <<>>, i |-> 0, late |-> FALSE]

\* no call of clean_bank_file under way
IdleClean == [pc |-> "idle"]

RanRules(op) == op \in {"addrule", "classify"}

Ran(op, upload, count) ==
    hist' = [op |-> op, again |-> RanRules(op) /\ RanRules(hist.op),
             upload |-> upload, count |-> count,
             changed |-> Cardinality(store' \ store)]

Init ==
    /\ store = {}
    /\ rules = <<>>
    /\ edited = {}
    /\ hist = [op |-> "init", again |-> FALSE, upload |-> NoUpload, count |-> 0,
               changed |-> 0]
    /\ sess = [p \in Sessions |-> IdleSession]
    /\ cls = IdleRun
    /\ clean = IdleClean

\* Upload tab, lines 456-458: clean_bank_file ends in st.stop()
UploadStopped(u) ==
    /\ ~Cleaned[u].ok
    /\ UNCHANGED <<store, rules, edited>>
    /\ UNCHANGED <<sess, cls, clean>>
    /\ Ran("stopped", u, 0)

\* Upload tab, lines 456-458: the file is cleaned and Confirm saves it
UploadConfirm(u) ==
    LET df == Cleaned[u]
    IN  /\ df.ok
        /\ store' = SaveRows(store, df.rows)
        /\ UNCHANGED <<rules, edited>>
        /\ UNCHANGED <<sess, cls, clean>>
        /\ Ran("upload", u, SaveCount(store, df.rows))

\* Rules tab, lines 410-413: the rule is inserted, then every rule is run
AddRule(rule) ==
    /\ Len(rules) < MaxRules
    /\ rule.keyword # <<>>
    /\ rules' = Append(rules, rule)
    /\ store' = RunAutoCategorization(store, rules')
    /\ UNCHANGED edited
    /\ UNCHANGED <<sess, cls, clean>>
    /\ Ran("addrule", NoUpload, 0)

\* run_auto_categorization() called on its own
Classify ==
    /\ store' = RunAutoCategorization(store, rules)
    /\ UNCHANGED <<rules, edited>>
    /\ UNCHANGED <<sess, cls, clean>>
    /\ Ran("classify", NoUpload, 0)

\* UPDATE transactions SET bucket = :b WHERE transaction_id = :id
SetBucket(s, id, b) ==
    {IF r.id = id THEN [r EXCEPT !.bucket = b] ELSE r : r \in s}

\* UPDATE transactions SET category=:c, bucket=:b WHERE transaction_id=:i
SetCategoryBucket(s, id, c, b) ==
    {IF r.id = id THEN [r EXCEPT !.category = c, !.bucket = b] ELSE r : r \in s}

\* Dashboard, lines 271-292: one row of this week's SPEND records is given
\* another bucket in the editor and Save Corrections writes every row back
SaveCorrections(w, r, b) ==
    /\ r \in store /\ r.bucket = "SPEND"
    /\ w.s <= r.date /\ r.date <= w.e
    /\ b # r.bucket
    /\ store' = SetBucket(store, r.id, b)
    /\ edited' = edited \cup {r.id}
    /\ UNCHANGED rules
    /\ UNCHANGED <<sess, cls, clean>>
    /\ Ran("corrections", NoUpload, 0)

\* Rules tab, lines 416-423: one Uncategorized row is given a category and a
\* bucket and Save Actions writes the rows whose category is set
SaveActions(r, c, b) ==
    /\ r \in store /\ r.category = "Uncategorized"
    /\ c # "Uncategorized"
    /\ store' = SetCategoryBucket(store, r.id, c, b)
    /\ edited' = edited \cup {r.id}
    /\ UNCHANGED rules
    /\ UNCHANGED <<sess, cls, clean>>
    /\ Ran("actions", NoUpload, 0)

\* Rules tab, lines 432-452: one classified row is given a category and a
\* bucket and Update History writes every row back
UpdateHistory(r, c, b) ==
    /\ r \in store /\ r.category # "Uncategorized"
    /\ <<c, b>> # <<r.category, r.bucket>>
    /\ store' = SetCategoryBucket(store, r.id, c, b)
    /\ edited' = edited \cup {r.id}
    /\ UNCHANGED rules
    /\ UNCHANGED <<sess, cls, clean>>
    /\ Ran("history", NoUpload, 0)

\* Dashboard, lines 234-238: DELETE ... WHERE date >= :s AND date <= :e
DeleteWeek(w) ==
    /\ store' = {r \in store : ~(r.date >= w.s /\ r.date <= w.e)}
    /\ store' # store
    /\ edited' = edited \cap Ids(store')
    /\ UNCHANGED rules
    /\ UNCHANGED <<sess, cls, clean>>
    /\ Ran("delete", NoUpload, 0)

\* Upload tab, lines 460-463: DELETE FROM transactions WHERE date < :d
DeleteOldData ==
    /\ store' = {r \in store : ~(r.date < OldDataCutoff)}
    /\ store' # store
    /\ edited' = edited \cap Ids(store')
    /\ UNCHANGED rules
    /\ UNCHANGED <<sess, cls, clean>>
    /\ Ran("delete", NoUpload, 0)



Next ==
    \/ \E u \in Uploads : UploadStopped(u)
    \/ \E u \in Uploads : UploadConfirm(u)
    \/ \E rule \in RuleChoices : AddRule(rule)
    \/ Classify
    \/ \E w \in Weeks, r \in store, b \in EditBuckets : SaveCorrections(w, r, b)
    \/ \E r \in store, c \in EditCategories, b \in EditBuckets : SaveActions(r, c, b)
    \/ \E r \in store, c \in EditCategories, b \in EditBuckets : UpdateHistory(r, c, b)
    \/ \E w \in Weeks : DeleteWeek(w)
    \/ DeleteOldData

Spec == Init /\ [][Next]_vars

(***************************************************************************)
(* Properties of the handlers, checked under Spec.                         *)
(***************************************************************************)
\* the record of a store with a given id
Rec(s, id) == CHOOSE r \in s : r.id = id

\* the ids of the rows of a frame
FrameIds(df) == {df.rows[i].transaction_id : i \in 1..Len(df.rows)}

\* whether a text contains a keyword, letters compared without case
ContainsNoCase(t, k) ==
    \E i \in 0..(Len(t) - Len(k)) :
        Lower(SubSeq(t, i + 1, i + Len(k))) = Lower(k)

\* whether the pattern of a rule matches a name under ILIKE
Matches(rule, name) == ILike(name, KeywordPattern(rule.keyword))

\* the positions of the rules of a list that match a name
Matching(rs, name) == {i \in 1..Len(rs) : Matches(rs[i], name)}

Max(S) == CHOOSE x \in S : \A y \in S : y <= x

\* whether a record carries the category and the bucket of a rule
ClassifiedBy(r, rule) == r.category = rule.category /\ r.bucket = rule.bucket

\* C1: an upload leaves every record whose id it carries as it was and adds
\* no second record with that id; an upload whose ids are all in the store
\* leaves the store as it was
C1_ReimportIsNoOp ==
    [][hist'.op = "upload" =>
          LET ids == FrameIds(Cleaned[hist'.upload])
          IN  /\ \A r \in store :
                    r.id \in ids =>
                        r \in store' /\ Cardinality({x \in store' : x.id = r.id}) = 1
              /\ ids \subseteq Ids(store) => store' = store]_vars

\* a file is uploaded again while each of its records is in the store with a
\* category or bucket that is no longer the default
C1_Witness ==
    /\ hist.op = "upload"
    /\ \A id \in FrameIds(Cleaned[hist.upload]) :
          \E r \in store :
              /\ r.id = id
              /\ (r.category # "Uncategorized" \/ r.bucket # "SPEND")

\* C2: a run of the rules leaves every record whose category is not
\* "Uncategorized" with the category and the bucket it had
C2_ClassifiedUntouched ==
    [][RanRules(hist'.op) =>
          \A r \in store :
              r.category # "Uncategorized" =>
                  \E x \in store' :
                      /\ x.id = r.id
                      /\ x.category = r.category /\ x.bucket = r.bucket]_vars

\* the rules have run over a record a manual edit had classified and whose
\* name a rule of another category matches
C2_Witness ==
    /\ RanRules(hist.op)
    /\ \E r \in store :
          /\ r.category \in EditCategories
          /\ Matching(rules, r.name) # {}

\* C3 as stated: after a run of the rules, an Uncategorized record whose name
\* contains the keyword of a rule has the category and bucket of that rule,
\* for every such rule
C3_EveryContainingRule ==
    [][RanRules(hist'.op) =>
          \A T \in store : \A i \in 1..Len(rules') :
              (T.category = "Uncategorized"
                 /\ ContainsNoCase(T.name, rules'[i].keyword))
              => ClassifiedBy(Rec(store', T.id), rules'[i])]_vars

\* C3 amended: after a run of the rules, an Uncategorized record has the
\* category and bucket of the first rule, in insertion order, whose pattern
\* matches its name under ILIKE
C3_FirstMatchingRule ==
    [][RanRules(hist'.op) =>
          \A T \in store : \A i \in 1..Len(rules') :
              (/\ T.category = "Uncategorized"
               /\ Matches(rules'[i], T.name)
               /\ \A j \in 1..(i - 1) : ~Matches(rules'[j], T.name))
              => ClassifiedBy(Rec(store', T.id), rules'[i])]_vars

\* a run of the rules has just classified a record that two rules with
\* different outcomes match
C3_Witness ==
    /\ RanRules(hist.op) /\ hist.changed > 0
    /\ \E r \in store : \E i, j \in Matching(rules, r.name) :
          /\ i < j
          /\ ~ClassifiedBy(r, rules[j])
          /\ ClassifiedBy(r, rules[i])

\* C4 as stated: for an Uncategorized record that two or more rules match,
\* the last matching rule of the list decides the category and the bucket
C4_LastMatchingRuleWins ==
    [][RanRules(hist'.op) =>
          \A T \in store :
              LET m == Matching(rules', T.name)
              IN  (T.category = "Uncategorized" /\ Cardinality(m) >= 2)
                  => ClassifiedBy(Rec(store', T.id), rules'[Max(m)])]_vars

\* C4 amended: a new rule is added at the end of the list, and for an
\* Uncategorized record that two or more rules match, the first matching
\* rule of the list decides the category and the bucket
C4_FirstMatchingRuleWins ==
    [][/\ hist'.op = "addrule" =>
            Len(rules') = Len(rules) + 1 /\ SubSeq(rules', 1, Len(rules)) = rules
       /\ RanRules(hist'.op) =>
            \A T \in store :
                LET m == Matching(rules', T.name)
                IN  (T.category = "Uncategorized" /\ Cardinality(m) >= 2)
                    => ClassifiedBy(Rec(store', T.id), rules'[Min(m)])]_vars

\* a standalone run of the rules has just classified a record that the first
\* and the second rule match, with different outcomes
C4_Witness ==
    /\ hist.op = "classify" /\ hist.changed > 0
    /\ Len(rules) >= 2
    /\ ~ClassifiedBy([category |-> rules[1].category, bucket |-> rules[1].bucket],
                     rules[2])
    /\ \E r \in store :
          /\ Matching(rules, r.name) = 1..Len(rules)
          /\ r.id \notin edited
          /\ ClassifiedBy(r, rules[1])

\* C5 as stated: the count an upload reports is the number of records it
\* inserted
C5_CountIsInserted ==
    hist.op = "upload" => hist.count = hist.changed

\* an upload of a file whose records are all in the store has reported a
\* count above zero
C5_Witness ==
    /\ hist.op = "upload"
    /\ FrameIds(Cleaned[hist.upload]) # {}
    /\ hist.changed = 0
    /\ hist.count = Len(Cleaned[hist.upload].rows)

\* C6 as stated: a run of the rules leaves every record a manual edit has
\* been saved for with the category and the bucket it had
C6_EditedUntouched ==
    [][RanRules(hist'.op) =>
          \A r \in store :
              r.id \in edited =>
                  ClassifiedBy(Rec(store', r.id),
                               [category |-> r.category, bucket |-> r.bucket])]_vars

\* a record a manual edit was saved for no longer has the bucket the edit gave
\* it: a rule has run since and has written its own
C6_Witness ==
    /\ RanRules(hist.op)
    /\ \E r \in store :
          /\ r.id \in edited
          /\ r.bucket \notin EditBuckets
          /\ \E i \in 1..Len(rules) : ClassifiedBy(r, rules[i])

\* C7: a run of the rules that follows a run of the rules, with no other
\* handler in between, changes no record
C7_SecondRunChangesNothing ==
    [][(RanRules(hist.op) /\ hist'.op = "classify") => store' = store]_vars

\* the rules have run twice in a row over a store in which they classified a
\* record and left another Uncategorized
C7_Witness ==
    /\ hist.op = "classify" /\ hist.again
    /\ \E r \in store : r.id \notin edited /\ r.category # "Uncategorized"
    /\ \E r \in store : r.category = "Uncategorized"

(***************************************************************************)
(* save_to_neon step by step, for sessions that upload at the same time.   *)
(*                                                                         *)
(* save_to_neon runs its INSERTs in one transaction and commits after the  *)
(* loop (line 207). Until then the rows a session has inserted are held in *)
(* pending: no other session reads them, but an INSERT of the same id by   *)
(* another session waits for that transaction to end, and does nothing if  *)
(* it commits. When two sessions wait for each other the database ends one *)
(* of the two transactions: the waiting execute raises, except: pass       *)
(* swallows it (line 206), every later execute of that session raises      *)
(* too, and its commit keeps nothing.                                      *)
(***************************************************************************)
\* the DataFrame df that save_to_neon was called with
RowsOf(p) ==
    IF sess[p].upload = NoUpload THEN <<>> ELSE Cleaned[sess[p].upload].rows

\* the session is at an INSERT of its DataFrame df that has not run yet
AtInsert(p, df) == sess[p].pc = "saving" /\ sess[p].i <= Len(df)

\* session p is at an INSERT of an id that session q has inserted and not
\* committed; dfs holds the DataFrame of each session
WaitsFor(p, q, dfs) ==
    /\ p # q
    /\ AtInsert(p, dfs[p]) /\ ~sess[p].failed
    /\ dfs[p][sess[p].i].transaction_id \in Ids(sess[q].pending)

\* Confirm is pressed on a cleaned file: save_to_neon is entered, count = 0
BeginSave(p, u) ==
    /\ sess[p].pc = "idle"
    /\ Cleaned[u].ok
    /\ sess' = [sess EXCEPT ![p] = [IdleSession EXCEPT !.pc = "saving",
                                                       !.upload = u, !.i = 1]]
    /\ UNCHANGED <<store, rules, edited, hist, cls, clean>>

\* lines 196-205: one INSERT ... ON CONFLICT DO NOTHING, then count += 1
InsertStep(p, dfs) ==
    /\ AtInsert(p, dfs[p]) /\ ~sess[p].failed
    /\ \A q \in Sessions : ~WaitsFor(p, q, dfs)
    /\ LET seen == store \cup sess[p].pending
           after == InsertRow(seen, dfs[p][sess[p].i])
       IN  sess' = [sess EXCEPT ![p].pending = after \ store,
                                ![p].i = @ + 1,
                                ![p].count = @ + 1]
    /\ UNCHANGED <<store, rules, edited, hist, cls, clean>>

\* lines 196-206: the INSERT of a session whose transaction has failed raises
\* and the exception is swallowed
InsertFails(p, dfs) ==
    /\ AtInsert(p, dfs[p]) /\ sess[p].failed
    /\ sess' = [sess EXCEPT ![p].i = @ + 1]
    /\ UNCHANGED <<store, rules, edited, hist, cls, clean>>

\* lines 196-206: two sessions wait for each other and the database ends the
\* transaction of p; its INSERT raises and the exception is swallowed
DeadlockAbort(p, dfs) ==
    /\ \E q \in Sessions : WaitsFor(p, q, dfs) /\ WaitsFor(q, p, dfs)
    /\ sess' = [sess EXCEPT ![p].failed = TRUE,
                            ![p].pending = {},
                            ![p].i = @ + 1]
    /\ UNCHANGED <<store, rules, edited, hist, cls, clean>>

\* lines 207-208: conn.commit() and return count
CommitSave(p, dfs) ==
    /\ sess[p].pc = "saving" /\ sess[p].i > Len(dfs[p])
    /\ store' = store \cup sess[p].pending
    /\ sess' = [sess EXCEPT ![p].pc = "done", ![p].pending = {}]
    /\ UNCHANGED <<rules, edited, hist, cls, clean>>

NextIngest ==
    LET dfs == [p \in Sessions |-> RowsOf(p)]
    IN  \/ \E p \in Sessions, u \in ConcurrentUploads : BeginSave(p, u)
        \/ \E p \in Sessions : InsertStep(p, dfs)
        \/ \E p \in Sessions : InsertFails(p, dfs)
        \/ \E p \in Sessions : DeadlockAbort(p, dfs)
        \/ \E p \in Sessions : CommitSave(p, dfs)

SpecIngest == Init /\ [][NextIngest]_vars

Done(p) == sess[p].pc = "done"

\* the store after the two uploads run one after the other on an empty store
Serial(first, second) ==
    SaveRows(SaveRows({}, RowsOf(first)), RowsOf(second))

\* C8 as stated: when both uploads have finished the store holds one record
\* for each id of either file and is the store of either serial order
C8_SameFinalStore ==
    (Done(1) /\ Done(2)) =>
        /\ \A p \in Sessions : \A i \in 1..Len(RowsOf(p)) :
              Cardinality({r \in store :
                              r.id = RowsOf(p)[i].transaction_id}) = 1
        /\ store = Serial(1, 2)
        /\ store = Serial(2, 1)

\* both uploads have finished, the database ended the transaction of one of
\* them, and a transaction of its file is missing from the store
C8_Witness ==
    /\ Done(1) /\ Done(2)
    /\ \E p \in Sessions :
          /\ sess[p].failed
          /\ sess[p].count > 0
          /\ \E i \in 1..Len(RowsOf(p)) :
                RowsOf(p)[i].transaction_id \notin Ids(store)

(***************************************************************************)
(* run_auto_categorization step by step, beside one upload.                *)
(*                                                                         *)
(* The rules are read once (line 71); each rule is one UPDATE followed by  *)
(* a commit (lines 76-82). An UPDATE reaches the committed rows only: the  *)
(* rows of an upload appear to it when save_to_neon commits.               *)
(***************************************************************************)
\* the lists of rules the table category_rules starts with
RuleLists ==
    UNION {[1..n -> RuleChoices] : n \in 1..MaxRules}

InitRace ==
    /\ store = {}
    /\ rules \in RuleLists
    /\ edited = {}
    /\ hist = [op |-> "init", again |-> FALSE, upload |-> NoUpload, count |-> 0,
               changed |-> 0]
    /\ sess = [p \in Sessions |-> IdleSession]
    /\ cls = IdleRun
    /\ clean = IdleClean

\* lines 70-73: the rules are read; no rule, no run
ClassifyBegin ==
    /\ cls.pc = "idle"
    /\ cls' = [pc |-> IF rules = <<>> THEN "idle" ELSE "run",
               rs |-> rules, i |-> 1, late |-> sess[1].pc = "done"]
    /\ UNCHANGED <<store, rules, edited, hist, sess, clean>>

\* lines 76-82: the UPDATE of one rule, committed
ClassifyStep ==
    /\ cls.pc = "run" /\ cls.i <= Len(cls.rs)
    /\ store' = ApplyRule(store, cls.rs[cls.i])
    /\ cls' = [cls EXCEPT !.i = @ + 1]
    /\ UNCHANGED <<rules, edited, hist, sess, clean>>

\* the loop over the rules is over
ClassifyEnd ==
    /\ cls.pc = "run" /\ cls.i > Len(cls.rs)
    /\ cls' = [cls EXCEPT !.pc = "idle"]
    /\ UNCHANGED <<store, rules, edited, hist, sess, clean>>

NextRace ==
    LET dfs == [p \in Sessions |-> RowsOf(p)]
    IN  \/ \E u \in ConcurrentUploads : BeginSave(1, u)
        \/ InsertStep(1, dfs)
        \/ CommitSave(1, dfs)
        \/ ClassifyBegin
        \/ ClassifyStep
        \/ ClassifyEnd

SpecRace == InitRace /\ [][NextRace]_vars

\* the upload is committed and a run of the rules that began after the commit
\* is over
Settled == Done(1) /\ cls.pc = "idle" /\ cls.late

\* the store after the upload and then the rules, one after the other
SerialOutcome == RunAutoCategorization(SaveRows({}, RowsOf(1)), rules)

\* C9 as stated: once the upload is committed and the rules have been run
\* again, the store is the store of a serial execution
C9_SerialOutcome == Settled => store = SerialOutcome

\* C9 amended: once the upload is committed and the rules have been run
\* again, the store holds the records of the file, each one with the category
\* and the bucket of one of the rules that match its name, or Uncategorized
\* and SPEND if no rule matches it
C9_ClassifiedByAMatchingRule ==
    Settled =>
        /\ Ids(store) = Ids(SerialOutcome)
        /\ \A r \in store :
              LET m == Matching(rules, r.name)
                  cat == IF m = {} THEN {<<"Uncategorized", "SPEND">>}
                         ELSE {<<rules[i].category, rules[i].bucket>> : i \in m}
              IN  /\ <<r.category, r.bucket>> \in cat
                  /\ [r EXCEPT !.category = "Uncategorized", !.bucket = "SPEND"]
                        \in SaveRows({}, RowsOf(1))

\* a run of the rules was under way when the upload was committed, and the
\* store is not the store of a serial execution
C9_Witness ==
    /\ Settled
    /\ store # SerialOutcome
    /\ \E r \in store : Cardinality(Matching(rules, r.name)) > 1

(***************************************************************************)
(* clean_bank_file on CSV files with and without the columns it looks for, *)
(* and the save that follows.                                              *)
(***************************************************************************)
\* the headers a file is made of and the cells of its two rows under each
SchemaHeaders == {hDate, hDescription, hAmount, hDebit, hCredit}

SchemaCells(h) ==
    CASE h = hDate -> <<tSep30, tOct02>>
      [] h = hDescription -> <<tAb, tB>>
      [] h = hAmount -> <<aNeg450, a1250>>
      [] h = hDebit -> <<a300, <<>>>>
      [] h = hCredit -> <<<<>>, a1250>>

\* the CSV file with the given headers
SchemaFile(hs) ==
    [name |-> <<"e", "x", "p", "o", "r", "t", ".", "c", "s", "v">>,
     header |-> hs,
     rows |-> [i \in 1..2 |-> [h \in hs |-> SchemaCells(h)[i]]],
     lines |-> NoLines, thisYear |-> NoYear]

InitClean ==
    /\ store = {}
    /\ rules = <<>>
    /\ edited = {}
    /\ hist = [op |-> "init", again |-> FALSE, upload |-> NoUpload, count |-> 0,
               changed |-> 0]
    /\ sess = [p \in Sessions |-> IdleSession]
    /\ cls = IdleRun
    /\ \E hs \in SUBSET SchemaHeaders, bank \in Banks :
          clean = [pc |-> "chosen", file |-> SchemaFile(hs), bank |-> bank,
                   result |-> Stopped]

\* Upload tab, line 457: df = clean_bank_file(f, bank)
CleanFile ==
    /\ clean.pc = "chosen"
    /\ clean' = [clean EXCEPT !.pc = "cleaned",
                              !.result = CleanBankFile(clean.file, clean.bank)]
    /\ UNCHANGED <<store, rules, edited, hist, sess, cls>>

\* Upload tab, line 458: Confirm saves the frame clean_bank_file returned;
\* after st.stop() there is no frame and no button
ConfirmCleaned ==
    /\ clean.pc = "cleaned" /\ clean.result.ok
    /\ store' = SaveRows(store, clean.result.rows)
    /\ clean' = [clean EXCEPT !.pc = "saved"]
    /\ UNCHANGED <<rules, edited, hist, sess, cls>>

NextClean == CleanFile \/ ConfirmCleaned

SpecClean == InitClean /\ [][NextClean]_vars

\* the columns of the file given to clean_bank_file, after the normalization
\* of the headers and the renames of the bank
CanonicalColumns == RenamedColumns(Columns(clean.file), clean.bank)

NoDate == colDate \notin CanonicalColumns
NoName == colName \notin CanonicalColumns

\* no amount column, and no debit or credit column to derive it from
NoAmount == CanonicalColumns \cap {colAmount, colDebit, colCredit} = {}

WasCleaned == clean.pc \in {"cleaned", "saved"}

RowsFile(rows) ==
    [name |-> <<"r", "o", "w", "s", ".", "c", "s", "v">>,
     header |-> {hDate, hDescription, hAmount},
     rows |-> [i \in 1..Len(rows) |->
                 (hDate :> rows[i][1] @@ hDescription :> rows[i][2]
                    @@ hAmount :> rows[i][3])],
     lines |-> NoLines, thisYear |-> NoYear]

InitRows ==
    /\ store = {}
    /\ rules = <<>>
    /\ edited = {}
    /\ hist = [op |-> "init", again |-> FALSE, upload |-> NoUpload, count |-> 0,
               changed |-> 0]
    /\ sess = [p \in Sessions |-> IdleSession]
    /\ cls = IdleRun
    /\ LET dates == {tOct02, <<"x", "x">>, <<>>}
           names == {<<"A">>, <<"A", "1">>}
           amounts == {<<"2", ".", "5", "0">>, a1250, <<"a", "b", "c">>}
           cells == dates \X names \X amounts
       IN  \E r1 \in cells, r2 \in cells :
              clean = [pc |-> "chosen", file |-> RowsFile(<<r1, r2>>),
                       bank |-> "Chase", result |-> Stopped]

SpecRows == InitRows /\ [][NextClean]_vars

\* the rows of the file given to clean_bank_file whose date cell is a text
\* that is no date or whose amount cell is a text that is no number
BadRows ==
    {i \in 1..Len(clean.file.rows) :
        LET d == clean.file.rows[i][hDate]
            a == clean.file.rows[i][hAmount]
        IN  \/ d # <<>> /\ ~ParseDate(d).ok
            \/ a # <<>> /\ ~IsNumLit(CurrencyText(a))}

\* the file given to clean_bank_file without its bad rows
GoodRowsFile ==
    [clean.file EXCEPT !.rows =
        SelectSeq(clean.file.rows,
                  LAMBDA r : \E i \in 1..Len(clean.file.rows) \ BadRows :
                                r = clean.file.rows[i])]

\* C11 as stated: of a file with one bad row clean_bank_file returns the
\* records of the other rows
C11_BadRowDropped ==
    (WasCleaned /\ Cardinality(BadRows) = 1) =>
        /\ clean.result.ok
        /\ clean.result.rows = CleanBankFile(GoodRowsFile, clean.bank).rows

\* a file with one bad row and one good row was given to clean_bank_file,
\* which stopped and returned no record
C11_Witness ==
    /\ clean.pc = "cleaned"
    /\ Cardinality(BadRows) = 1
    /\ CleanBankFile(GoodRowsFile, clean.bank).ok
    /\ Len(CleanBankFile(GoodRowsFile, clean.bank).rows) = 1
    /\ ~clean.result.ok
    /\ clean.result.rows = <<>>

\* C13 as stated: two records clean_bank_file returns with the same
\* transaction_id have the same date, name and amount
C13_IdSeparatesTransactions ==
    (WasCleaned /\ clean.result.ok) =>
        \A i, j \in 1..Len(clean.result.rows) :
            LET r1 == clean.result.rows[i]
                r2 == clean.result.rows[j]
            IN  r1.transaction_id = r2.transaction_id =>
                    /\ r1.date = r2.date
                    /\ r1.name = r2.name
                    /\ r1.amount = r2.amount

\* a file of two transactions with different names and amounts was cleaned
\* and saved, and the store holds one record
C13_Witness ==
    /\ clean.pc = "saved"
    /\ Len(clean.result.rows) = 2
    /\ clean.result.rows[1].name # clean.result.rows[2].name
    /\ clean.result.rows[1].amount # clean.result.rows[2].amount
    /\ Cardinality(store) = 1

(***************************************************************************)
(* process_chime_pdf on statements of two lines: a line put together from  *)
(* a leading text, tokens and the blanks between them, and a line that is  *)
(* a transaction.                                                          *)
(***************************************************************************)
MaxTokens == 3

\* the line made of a leading text and tokens, gap between each two of them
RECURSIVE PdfLine(_, _, _)
PdfLine(lead, tokens, gap) ==
    IF tokens = <<>> THEN lead
    ELSE PdfLine(lead \o (IF lead = <<>> THEN <<>> ELSE gap) \o Head(tokens),
                 Tail(tokens), gap)

InitPdf ==
    /\ store = {}
    /\ rules = <<>>
    /\ edited = {}
    /\ hist = [op |-> "init", again |-> FALSE, upload |-> NoUpload, count |-> 0,
               changed |-> 0]
    /\ sess = [p \in Sessions |-> IdleSession]
    /\ cls = IdleRun
    /\ LET leads == {<<"J", "a", "n", " ", "5">>, <<"1", "/", "5", "/", "2", "4">>,
                     <<"j", "a", "n", " ", "5">>, <<>>}
           words == {<<"C", "O", "F", "F", "E", "E">>,
                     <<"4", ".", "5", "0">>, <<"(", "$", "1", ",", "2", "0", "4", ".", "5", "0", ")">>,
                     <<"7", ".", "5">>, <<"-", "3", ".", "0", "0">>}
           files == {[name |-> <<"c", "h", "i", "m", "e", "_", "2", "0", "2", "4", ".", "p", "d", "f">>,
                      year |-> <<"2", "0", "2", "4">>],
                     [name |-> <<"c", "h", "i", "m", "e", ".", "P", "D", "F">>,
                      year |-> <<"2", "0", "2", "6">>]}
           gaps == {<<" ">>, <<" ", " ">>}
           rent == <<"2", "/", "1", "/", "2", "4", " ", "R", "E", "N", "T", " ", "9", "0", "0", ".", "0", "0">>
       IN  \E lead \in leads, n \in 0..MaxTokens, f \in files, gap \in gaps :
             \E tokens \in [1..n -> words] :
                clean = [pc |-> "chosen",
                         file |-> [name |-> f.name, header |-> {}, rows |-> <<>>,
                                   lines |-> <<PdfLine(lead \o gap, tokens, gap),
                                               rent>>,
                                   thisYear |-> <<"2", "0", "2", "6">>],
                         bank |-> "Chime",
                         parts |-> [lead |-> lead, tokens |-> tokens,
                                    year |-> f.year],
                         result |-> <<>>]

\* line 158: df = process_chime_pdf(uploaded_file)
ParsePdf ==
    /\ clean.pc = "chosen"
    /\ clean' = [clean EXCEPT !.pc = "parsed",
                              !.result = ProcessChimePdf(clean.file)]
    /\ UNCHANGED <<store, rules, edited, hist, sess, cls>>

SpecPdf == InitPdf /\ [][ParsePdf]_vars

\* the records of a line by its parts: none unless the line starts with a
\* date and has an amount; else the date (with the year if it has no slash),
\* the tokens before the last amount joined by single blanks, and that amount
PartsRecords(parts) ==
    LET MoneyCents(token) ==
        CASE token = <<"4", ".", "5", "0">> -> {450}
          [] token = <<"(", "$", "1", ",", "2", "0", "4", ".", "5", "0", ")">> -> {-120450}
          [] token = <<"-", "3", ".", "0", "0">> -> {-300}
          [] OTHER -> {}
        hits == {i \in 1..Len(parts.tokens) : MoneyCents(parts.tokens[i]) # {}}
        dated == parts.lead \in {<<"J", "a", "n", " ", "5">>, <<"1", "/", "5", "/", "2", "4">>}
    IN  IF ~dated \/ hits = {} THEN <<>>
        ELSE LET i == Max(hits)
             IN  <<[date |-> IF parts.lead = <<"J", "a", "n", " ", "5">>
                             THEN parts.lead \o <<",", " ">> \o parts.year
                             ELSE parts.lead,
                    name |-> Join(SubSeq(parts.tokens, 1, i - 1)),
                    amount |-> FloatAmount(CHOOSE c \in MoneyCents(parts.tokens[i]) : TRUE),
                    source |-> "Chime PDF"]>>

\* C12: process_chime_pdf returns, line by line, no record for a line without
\* a leading date or without an amount token, and else one record: the date
\* token (with ", <year>" appended if it has no slash), the tokens before the
\* last amount token joined by single blanks, and the value of that token
C12_LineRecords ==
    clean.pc = "parsed" =>
        clean.result = PartsRecords(clean.parts)
                          \o <<[date |-> <<"2", "/", "1", "/", "2", "4">>,
                                name |-> <<"R", "E", "N", "T">>,
                                amount |-> FloatAmount(90000), source |-> "Chime PDF"]>>

\* a statement whose first line has a date without a year, a word and two
\* amount tokens, the last one in parentheses, has been parsed into two records
C12_Witness ==
    /\ clean.pc = "parsed"
    /\ clean.parts.lead = <<"J", "a", "n", " ", "5">>
    /\ clean.parts.tokens = <<<<"C", "O", "F", "F", "E", "E">>, <<"4", ".", "5", "0">>,
                              <<"(", "$", "1", ",", "2", "0", "4", ".", "5", "0", ")">>>>
    /\ Len(clean.result) = 2
    /\ clean.result[1].amount = FloatAmount(-120450)
    /\ clean.result[1].name = <<"C", "O", "F", "F", "E", "E", " ", "4", ".", "5", "0">>

=============================================================================
